---- MODULE Spec2Model ----
(***************************************************************************)
(* reupload_jsons_to_Orion.py: main() lists json/*.json, parses every      *)
(* listed file with json.load and hands the list of parsed objects to      *)
(* Orion.update in one call.                                               *)
(*                                                                         *)
(* A file name is a sequence of characters, a file's text a sequence of    *)
(* JSON tokens.  A Document (the value json.load returns) is a record      *)
(*   [kind, members, scalar]: an object is the set of its <<key, value>>   *)
(* pairs, a scalar is one value; a value is <<"str", s>> or <<"num", n>>.  *)
(***************************************************************************)
EXTENDS Integers, Sequences, FiniteSets

\* The largest number of entries the json directory holds in the model.
MaxFiles == 3

----------------------------------------------------------------------------
(* File names and glob.glob('json/*.json')                                 *)

A_JSON == <<"a", ".", "j", "s", "o", "n">>
B_JSON == <<"b", ".", "j", "s", "o", "n">>
C_JSON == <<"c", ".", "j", "s", "o", "n">>
HIDDEN_JSON == <<".", "h", ".", "j", "s", "o", "n">>
NOTES_TXT == <<"n", ".", "t", "x", "t">>

Names == {A_JSON, B_JSON, C_JSON, HIDDEN_JSON, NOTES_TXT}

Suffix == <<".", "j", "s", "o", "n">>

\* fnmatch of the pattern *.json: the name ends with ".json".
EndsWithJson(name) ==
    /\ Len(name) >= Len(Suffix)
    /\ SubSeq(name, Len(name) - Len(Suffix) + 1, Len(name)) = Suffix

\* glob skips names that start with a dot when the pattern does not.
IsHidden(name) == Len(name) > 0 /\ name[1] = "."

GlobMatches(name) == EndsWithJson(name) /\ ~IsHidden(name)

\* The orders in which the directory scan may yield the names of S.
Orderings(S) ==
    {s \in [1..Cardinality(S) -> S] : \A j, k \in DOMAIN s : s[j] = s[k] => j = k}

----------------------------------------------------------------------------
(* File texts and json.load                                                *)

WS == " "

StringTokens == {"\"id\"", "\"type\"", "\"1\"", "\"2\"", "\"Sensor\""}
NumberTokens == {"1"}
ScalarTokens == StringTokens \union NumberTokens

\* The Python value of a scalar token: a str without its quotes, or a number.
Unquote(tok) ==
    CASE tok = "\"id\"" -> "id"
      [] tok = "\"type\"" -> "type"
      [] tok = "\"1\"" -> "1"
      [] tok = "\"2\"" -> "2"
      [] tok = "\"Sensor\"" -> "Sensor"
      [] OTHER -> tok

ScalarValue(tok) ==
    IF tok \in NumberTokens THEN <<"num", tok>> ELSE <<"str", Unquote(tok)>>

\* dict[key] = value: a later member replaces an earlier one with the same key.
SetMember(members, key, value) ==
    {p \in members : p[1] # key} \union {<<key, value>>}

ParseFailure == [ok |-> FALSE, members |-> {}]

\* The members of an object, after the opening brace: key : scalar (, ...)*
RECURSIVE ParseMembers(_, _)
ParseMembers(toks, acc) ==
    IF Len(toks) < 3 THEN ParseFailure
    ELSE IF ~(toks[1] \in StringTokens /\ toks[2] = ":" /\ toks[3] \in ScalarTokens)
    THEN ParseFailure
    ELSE LET acc2 == SetMember(acc, Unquote(toks[1]), ScalarValue(toks[3]))
         IN  IF Len(toks) = 3 THEN [ok |-> TRUE, members |-> acc2]
             ELSE IF toks[4] = "," /\ Len(toks) > 4
             THEN ParseMembers(SubSeq(toks, 5, Len(toks)), acc2)
             ELSE ParseFailure

NoDocument == [kind |-> "none", members |-> {}, scalar |-> <<"none", "">>]

ObjectDocument(members) ==
    [kind |-> "object", members |-> members, scalar |-> <<"none", "">>]

ScalarDocument(tok) ==
    [kind |-> "scalar", members |-> {}, scalar |-> ScalarValue(tok)]

\* json.load: whitespace between tokens is dropped; the text is one scalar or
\* one object; anything else raises JSONDecodeError (ok = FALSE).
JsonLoad(text) ==
    LET toks == SelectSeq(text, LAMBDA t : t # WS)
        n == Len(toks)
    IN  IF n = 1 /\ toks[1] \in ScalarTokens
        THEN [ok |-> TRUE, val |-> ScalarDocument(toks[1])]
        ELSE IF n >= 2 /\ toks[1] = "{" /\ toks[n] = "}"
        THEN IF n = 2
             THEN [ok |-> TRUE, val |-> ObjectDocument({})]
             ELSE LET r == ParseMembers(SubSeq(toks, 2, n - 1), {})
                  IN  IF r.ok THEN [ok |-> TRUE, val |-> ObjectDocument(r.members)]
                      ELSE [ok |-> FALSE, val |-> NoDocument]
        ELSE [ok |-> FALSE, val |-> NoDocument]

\* {"id":"1","type":"Sensor"}
Sensor1 ==
    <<"{", "\"id\"", ":", "\"1\"", ",", "\"type\"", ":", "\"Sensor\"", "}">>
\* the same entity, members in the other order and with whitespace
Sensor1Spaced ==
    <<"{", WS, "\"type\"", ":", WS, "\"Sensor\"", ",", WS, "\"id\"", ":", WS,
      "\"1\"", WS, "}">>
\* {"id":"2","type":"Sensor"}
Sensor2 ==
    <<"{", "\"id\"", ":", "\"2\"", ",", "\"type\"", ":", "\"Sensor\"", "}">>
\* 1  (a document that is a bare scalar)
One == <<"1">>
\* {invalid}
Invalid == <<"{", "invalid", "}">>

Texts == {Sensor1, Sensor1Spaced, Sensor2, One, Invalid}

FileEntries == [text : Texts, readable : BOOLEAN]

----------------------------------------------------------------------------
VARIABLES
    dirExists,  \* whether the directory json exists
    dir,        \* the directory: file name -> [text, readable]
    pc,         \* position of main()
    jsons,      \* the list glob.glob returned
    i,          \* index in jsons of the loop's current json_
    f,          \* the open file handles, each [name, text]
    obj,        \* the last value json.load returned
    objects,    \* the list built by the loop
    opens,      \* the paths passed to open(), in call order
    calls,      \* the arguments of the Orion.update calls, in call order
    ret,        \* how Orion.update ended: its return value or "raised"
    error,      \* the exception propagating out of main(), or "none"
    exitCode    \* the exit status of the process, -1 while it runs

vars == <<dirExists, dir, pc, jsons, i, f, obj, objects, opens, calls, ret,
          error, exitCode>>

ReturnValues == {"Ack", "Nack"}

Init ==
    /\ dirExists \in BOOLEAN
    /\ \E S \in SUBSET Names :
          /\ Cardinality(S) <= MaxFiles
          /\ dirExists \/ S = {}
          /\ dir \in [S -> FileEntries]
    /\ pc = "glob"
    /\ jsons = <<>>
    /\ i = 1
    /\ f = {}
    /\ obj = NoDocument
    /\ objects = <<>>
    /\ opens = <<>>
    /\ calls = <<>>
    /\ ret = "none"
    /\ error = "none"
    /\ exitCode = -1

\* jsons = glob.glob('json/*.json'); objects = []
Glob ==
    /\ pc = "glob"
    /\ jsons' \in Orderings({n \in DOMAIN dir : GlobMatches(n)})
    /\ objects' = <<>>
    /\ i' = 1
    /\ pc' = "loop"
    /\ UNCHANGED <<dirExists, dir, f, obj, opens, calls, ret, error, exitCode>>

\* A variant that swallows the OSError of open() and goes on to the next file.
OpenSwallow ==
    /\ pc = "loop"
    /\ i <= Len(jsons)
    /\ opens' = Append(opens, jsons[i])
    /\ \E vanished \in BOOLEAN :
          IF dir[jsons[i]].readable /\ ~vanished
          THEN /\ f' = f \union {[name |-> jsons[i], text |-> dir[jsons[i]].text]}
               /\ pc' = "opened"
               /\ i' = i
          ELSE /\ f' = f
               /\ pc' = "loop"
               /\ i' = i + 1
    /\ UNCHANGED <<dirExists, dir, jsons, obj, objects, calls, ret, error, exitCode>>

\* for json_ in jsons: with open(json_, 'r') as f
\* open() raises OSError when the file is unreadable or was removed after the
\* listing; the exception leaves main().
Open ==
    /\ pc = "loop"
    /\ i <= Len(jsons)
    /\ opens' = Append(opens, jsons[i])
    /\ \E vanished \in BOOLEAN :
          IF dir[jsons[i]].readable /\ ~vanished
          THEN /\ f' = f \union {[name |-> jsons[i], text |-> dir[jsons[i]].text]}
               /\ pc' = "opened"
               /\ error' = error
          ELSE /\ f' = f
               /\ pc' = "raised"
               /\ error' = "OSError"
    /\ UNCHANGED <<dirExists, dir, jsons, i, obj, objects, calls, ret, exitCode>>

\* Leaving the with block without the cleanup on the exception path.
WithExitNoCleanup(handles, h, raised) == IF raised THEN handles ELSE handles \ {h}

\* Leaving the with block closes the handle, on return and on exception.
WithExit(handles, h, raised) == handles \ {h}

\* A variant that swallows the JSONDecodeError and goes on to the next file.
LoadSwallow ==
    /\ pc = "opened"
    /\ \E h \in f :
          LET r == JsonLoad(h.text)
          IN  /\ f' = WithExit(f, h, ~r.ok)
              /\ IF r.ok
                 THEN /\ obj' = r.val
                      /\ pc' = "append"
                      /\ i' = i
                 ELSE /\ obj' = obj
                      /\ pc' = "loop"
                      /\ i' = i + 1
    /\ UNCHANGED <<dirExists, dir, jsons, objects, opens, calls, ret, error, exitCode>>

\* obj = json.load(f), then the end of the with block
Load ==
    /\ pc = "opened"
    /\ \E h \in f :
          LET r == JsonLoad(h.text)
          IN  /\ f' = WithExit(f, h, ~r.ok)
              /\ IF r.ok
                 THEN /\ obj' = r.val
                      /\ pc' = "append"
                      /\ error' = error
                 ELSE /\ obj' = obj
                      /\ pc' = "raised"
                      /\ error' = "JSONDecodeError"
    /\ UNCHANGED <<dirExists, dir, jsons, i, objects, opens, calls, ret, exitCode>>

AppendTwice(list, o) == Append(Append(list, o), o)

AppendFront(list, o) == <<o>> \o list

\* list.append
ListAppend(list, o) == Append(list, o)

\* objects.append(obj), and the loop moves to the next json_
AppendObj ==
    /\ pc = "append"
    /\ objects' = ListAppend(objects, obj)
    /\ i' = i + 1
    /\ pc' = "loop"
    /\ UNCHANGED <<dirExists, dir, jsons, f, obj, opens, calls, ret, error, exitCode>>

\* A variant with the call indented into the loop body.
CallUpdateInLoop ==
    /\ pc = "loop"
    /\ i > 1
    /\ Len(calls) < i - 1
    /\ calls' = Append(calls, objects)
    /\ pc' = IF i > Len(jsons) THEN "update" ELSE "loop"
    /\ UNCHANGED <<dirExists, dir, jsons, i, f, obj, objects, opens, ret, error, exitCode>>

\* A variant that returns early when there is nothing to upload.
CallUpdateUnlessEmpty ==
    /\ pc = "loop"
    /\ i > Len(jsons)
    /\ IF objects = <<>>
       THEN /\ calls' = calls
            /\ pc' = "done"
       ELSE /\ calls' = Append(calls, objects)
            /\ pc' = "update"
    /\ UNCHANGED <<dirExists, dir, jsons, i, f, obj, objects, opens, ret, error, exitCode>>

\* Orion.update(objects): the call is made once the loop has run out of paths
CallUpdate ==
    /\ pc = "loop"
    /\ i > Len(jsons)
    /\ calls' = Append(calls, objects)
    /\ pc' = "update"
    /\ UNCHANGED <<dirExists, dir, jsons, i, f, obj, objects, opens, ret, error, exitCode>>

\* Orion.update returns; main() drops the value and returns
UpdateReturns ==
    /\ pc = "update"
    /\ ret' \in ReturnValues
    /\ pc' = "done"
    /\ UNCHANGED <<dirExists, dir, jsons, i, f, obj, objects, opens, calls, error, exitCode>>

\* Orion.update raises; the exception leaves main()
UpdateRaises ==
    /\ pc = "update"
    /\ ret' = "raised"
    /\ error' = "BrokerError"
    /\ pc' = "raised"
    /\ UNCHANGED <<dirExists, dir, jsons, i, f, obj, objects, opens, calls, exitCode>>

ExitStatusInspectsResult(err, r) == IF err = "none" /\ r = "Ack" THEN 0 ELSE 1

\* The interpreter's exit status: 0 when main() returned, 1 on an uncaught
\* exception.  The value Orion.update returned plays no part.
ExitStatus(err, r) == IF err = "none" THEN 0 ELSE 1

\* if __name__ == '__main__': main() -- the process ends
Exit ==
    /\ pc \in {"done", "raised"}
    /\ exitCode' = ExitStatus(error, ret)
    /\ pc' = "exited"
    /\ UNCHANGED <<dirExists, dir, jsons, i, f, obj, objects, opens, calls, ret, error>>

Next ==
    \/ Glob
    \/ Open
    \/ Load
    \/ AppendObj
    \/ CallUpdate
    \/ UpdateReturns
    \/ UpdateRaises
    \/ Exit

Spec == Init /\ [][Next]_vars

----------------------------------------------------------------------------
(* Properties                                                              *)

\* What json.load yields for the k-th listed path.
Parsed(k) == JsonLoad(dir[jsons[k]].text)

Matched == {n \in DOMAIN dir : GlobMatches(n)}

Sensor1Doc ==
    ObjectDocument({<<"id", <<"str", "1">> >>, <<"type", <<"str", "Sensor">> >>})

LoopErrors == {"OSError", "JSONDecodeError"}

\* C1: if any listed file holds malformed JSON, Orion.update is never called,
\* wherever that file stands in the listing.
C1_NoUploadOnMalformed ==
    (\E k \in DOMAIN jsons : ~Parsed(k).ok) => calls = <<>>

\* A run that parsed two well-formed files, failed on the third and ended.
C1_Witness ==
    /\ pc = "exited"
    /\ Len(jsons) = 3
    /\ Len(objects) = 2
    /\ ~Parsed(3).ok
    /\ error = "JSONDecodeError"
    /\ calls = <<>>

\* C2: if any listed file cannot be opened (it is unreadable, or open() failed
\* because it was gone), Orion.update is never called.
C2_NoUploadOnOpenFailure ==
    ((\E k \in DOMAIN jsons : ~dir[jsons[k]].readable) \/ error = "OSError")
        => calls = <<>>

\* A run whose third file is unreadable, after two files were read, has ended.
C2_Witness ==
    /\ pc = "exited"
    /\ Len(jsons) = 3
    /\ Len(objects) = 2
    /\ ~dir[jsons[3]].readable
    /\ error = "OSError"
    /\ calls = <<>>

\* C3: the batch of every Orion.update call holds exactly one Document per
\* listed file: the listing names each matching file once, the batch is as
\* long as the listing, and each Document occurs in the batch as often as it
\* is the parse of a listed file.
C3_OneDocumentPerFile ==
    \A n \in DOMAIN calls :
        LET batch == calls[n]
        IN  /\ Len(jsons) = Cardinality(Matched)
            /\ {jsons[k] : k \in DOMAIN jsons} = Matched
            /\ Len(batch) = Len(jsons)
            /\ \A k \in DOMAIN jsons : Parsed(k).ok
            /\ \A k \in DOMAIN jsons :
                  Cardinality({j \in DOMAIN batch : batch[j] = Parsed(k).val})
                    = Cardinality({j \in DOMAIN jsons : Parsed(j).val = Parsed(k).val})

\* Three files uploaded, one of them the spaced text of sensor 1.
C3_Witness ==
    /\ Len(calls) = 1
    /\ Len(calls[1]) = 3
    /\ \E k \in DOMAIN jsons :
          /\ dir[jsons[k]].text = Sensor1Spaced
          /\ \E j \in DOMAIN calls[1] : calls[1][j] = Sensor1Doc

\* C4: Orion.update is called at most once; when it is called every listed
\* file has been opened, parsed and appended and the argument is the whole
\* list; and a run in which every file opened and parsed ends with one call.
C4_UpdateExactlyOnce ==
    /\ Len(calls) <= 1
    /\ Len(calls) = 1 =>
          /\ i = Len(jsons) + 1
          /\ Len(opens) = Len(jsons)
          /\ Len(objects) = Len(jsons)
          /\ calls[1] = objects
    /\ (pc = "exited" /\ Len(objects) = Len(jsons)) => Len(calls) = 1

\* A run over three files ended after its single call.
C4_Witness ==
    /\ pc = "exited"
    /\ Len(jsons) = 3
    /\ Len(calls) = 1
    /\ calls[1] = objects
    /\ Len(objects) = 3

\* C5 as stated: with nothing listed, Orion.update is called with an empty
\* batch and the run completes normally.
C5_EmptyInputCompletesNormally ==
    (pc = "exited" /\ jsons = <<>>) =>
        /\ calls = << <<>> >>
        /\ error = "none"
        /\ exitCode = 0

\* C5 amended: with nothing listed, Orion.update is called once with an empty
\* batch and no error arises before the call; the run completes normally
\* exactly when that call returns.
C5_EmptyInputReachesUpdate ==
    /\ (pc \in {"update", "done", "raised", "exited"} /\ jsons = <<>>) =>
          /\ calls = << <<>> >>
          /\ error \notin LoopErrors
    /\ (pc = "exited" /\ jsons = <<>>) =>
          (exitCode = 0 <=> ret \in ReturnValues)

\* The directory is absent and the run ended normally after an empty upload.
C5_Witness ==
    /\ pc = "exited"
    /\ ~dirExists
    /\ calls = << <<>> >>
    /\ exitCode = 0

\* C6: every file present in the json directory has its content in the batch
\* passed to Orion.update.
C6_AllFilesUploaded ==
    \A n \in DOMAIN calls :
        \A name \in DOMAIN dir :
            /\ JsonLoad(dir[name].text).ok
            /\ \E k \in DOMAIN calls[n] : calls[n][k] = JsonLoad(dir[name].text).val

\* C7: the k-th Document of the batch is the parse of the k-th listed path;
\* nothing is dropped, merged or changed.
C7_BatchInDiscoveryOrder ==
    \A n \in DOMAIN calls :
        /\ Len(calls[n]) = Len(jsons)
        /\ \A k \in DOMAIN jsons : Parsed(k).ok /\ calls[n][k] = Parsed(k).val

\* Two files with the same Document, from different texts, then a third one.
C7_Witness ==
    /\ Len(calls) = 1
    /\ Len(calls[1]) = 3
    /\ dir[jsons[1]].text = Sensor1
    /\ dir[jsons[2]].text = Sensor1Spaced
    /\ calls[1][1] = calls[1][2]
    /\ calls[1][3] # calls[1][1]

\* C8: the process exits with 0 exactly when every listed file was opened and
\* parsed and Orion.update returned, whatever it returned; otherwise it exits
\* with an error status; and once an exception is raised main() runs no more.
C8_ExitStatus ==
    /\ pc = "exited" =>
          /\ exitCode \in {0, 1}
          /\ exitCode = 0 <=>
                /\ Len(opens) = Len(jsons)
                /\ Len(objects) = Len(jsons)
                /\ ret \in ReturnValues
          /\ exitCode = 1 <=> error # "none"
    /\ error # "none" => pc \in {"raised", "exited"}
    /\ ret = "raised" => error = "BrokerError"

\* Orion.update returned a negative result and the process still exited 0.
C8_Witness ==
    /\ pc = "exited"
    /\ Len(jsons) = 2
    /\ ret = "Nack"
    /\ exitCode = 0

\* C9: files are opened one at a time in listing order, each only after the
\* one before it was parsed and appended; when a file fails to open or parse
\* it is the last one opened and all files before it were parsed.
C9_SequentialFailFast ==
    /\ Len(opens) <= Len(jsons)
    /\ \A k \in DOMAIN opens : opens[k] = jsons[k]
    /\ Len(objects) <= Len(opens)
    /\ Len(opens) <= Len(objects) + 1
    /\ \A k \in DOMAIN objects : Parsed(k).ok /\ objects[k] = Parsed(k).val
    /\ error \in LoopErrors => Len(opens) = Len(objects) + 1

\* The second of three files failed to parse; the third was never opened.
C9_Witness ==
    /\ pc = "exited"
    /\ error = "JSONDecodeError"
    /\ Len(jsons) = 3
    /\ Len(objects) = 1
    /\ opens = <<jsons[1], jsons[2]>>

\* C10: at most one file handle is open, and only between open() and the end
\* of the with block: none is open during the Orion.update call, after an
\* exception, or when the process ends.
C10_HandlesScoped ==
    /\ Cardinality(f) <= 1
    /\ pc # "opened" => f = {}
    /\ pc = "opened" => \E h \in f : h.name = jsons[i]

\* A parse failure ended the run and the handle of the failing file is closed.
C10_Witness ==
    /\ pc = "exited"
    /\ error = "JSONDecodeError"
    /\ Len(opens) = 2
    /\ f = {}

====
